---------------------------- MODULE Spec2Model ----------------------------
(***************************************************************************)
(* A model of lminfo.py, the Flexlm "lmutil lmstat" text parser.           *)
(*                                                                         *)
(* Text is modelled as TLA+ strings, character by character: the Python    *)
(* string methods the parser uses (strip, split, re.split, re.match, int,  *)
(* time.strptime, time.strftime) are operators that compute what the       *)
(* Python 2.7 library computes on the strings the parser hands them.       *)
(***************************************************************************)
EXTENDS Integers, Sequences, FiniteSets, TLC

VARIABLES
    pc,                   \* control position of the routine being run
    lminfo,               \* self.lminfo: feature_uniq -> record
    error,                \* self.error
    error_msg,            \* self.error_msg
    exc,                  \* exception propagating to the caller ("none" if none)
    result,               \* value returned by get_license_info (<<>> if none)
    raw_text,             \* get_license_info: raw_text
    current_state,        \* _preprocess: current_state
    summary_lines,        \* _preprocess: summary_lines
    details_lines,        \* _preprocess: details_lines
    current_feature,      \* _process_details local (<<>> while unbound)
    current_version,      \* _process_details local (<<>> while unbound)
    current_feature_uniq, \* _process_details local (<<>> while unbound)
    now,                  \* the local clock read by time.localtime()
    accept2dyear,         \* time.accept2dyear of the interpreter
    sum_seen,             \* history: summary lines processed so far
    det_seen,             \* history: details lines processed so far
    seen,                 \* history: raw lines looped over by _preprocess
    d_in,                 \* argument(s) of the date function applied last
    d_out,                \* its return value
    calls,                \* number of get_license_info calls made
    acquired              \* history: what _get_raw_license_text did, per call

vars == << pc, lminfo, error, error_msg, exc, result, raw_text, current_state,
           summary_lines, details_lines, current_feature, current_version,
           current_feature_uniq, now, accept2dyear, sum_seen, det_seen, seen,
           d_in, d_out, calls, acquired >>

-----------------------------------------------------------------------------
(* Bounds of the model.                                                    *)

MaxSum == 2     \* summary lines handed to _process_summary
MaxDet == 3     \* details lines handed to _process_details
MaxRaw == 6     \* lines of raw text handed to _preprocess
MaxCalls == 2   \* get_license_info calls on one parser instance
MaxCursor == 4  \* details lines handed to _process_details after a summary

-----------------------------------------------------------------------------
(* Python strings.                                                         *)

Ch(s, i) == SubSeq(s, i, i)

Drop(s, n) == SubSeq(s, n + 1, Len(s))

StartsWith(s, p) == Len(s) >= Len(p) /\ SubSeq(s, 1, Len(p)) = p

\* \s of the re module on a byte string: [ \t\n\r\f\v]
Whitespace == {" ", "\t", "\n", "\r", "\f"}

Digits == {"0", "1", "2", "3", "4", "5", "6", "7", "8", "9"}

\* the number of leading characters of s that are in chars
SpanLen(s, chars) ==
    IF \A i \in 1..Len(s) : Ch(s, i) \in chars THEN Len(s)
    ELSE (CHOOSE i \in 1..Len(s) :
             /\ Ch(s, i) \notin chars
             /\ \A j \in 1..(i - 1) : Ch(s, j) \in chars) - 1

\* the number of leading characters of s that are not in chars
SpanNotLen(s, chars) ==
    IF \A i \in 1..Len(s) : Ch(s, i) \notin chars THEN Len(s)
    ELSE (CHOOSE i \in 1..Len(s) :
             /\ Ch(s, i) \in chars
             /\ \A j \in 1..(i - 1) : Ch(s, j) \notin chars) - 1

\* the longest prefix of s made of characters of chars
Span(s, chars) == SubSeq(s, 1, SpanLen(s, chars))

\* the longest prefix of s with no character of chars
SpanNot(s, chars) == SubSeq(s, 1, SpanNotLen(s, chars))

\* str.lstrip(chars)
lstrip(s, chars) == Drop(s, SpanLen(s, chars))

\* str.rstrip(chars)
rstrip(s, chars) ==
    IF \A i \in 1..Len(s) : Ch(s, i) \in chars THEN ""
    ELSE SubSeq(s, 1, CHOOSE i \in 1..Len(s) :
                         /\ Ch(s, i) \notin chars
                         /\ \A j \in (i + 1)..Len(s) : Ch(s, j) \in chars)

\* str.strip(chars)
strip(s, chars) == rstrip(lstrip(s, chars), chars)

\* str.split(sep) for a one-character sep
RECURSIVE split(_, _)
split(s, sep) ==
    LET first == SpanNot(s, {sep})
    IN  IF Len(first) = Len(s)
        THEN << s >>
        ELSE << first >> \o split(Drop(s, Len(first) + 1), sep)

\* re.split(r'\s+', line): a leading or trailing run of whitespace yields an
\* empty first or last word, and the empty line yields [''].
RECURSIVE re_split(_)
re_split(line) ==
    LET word == SpanNot(line, Whitespace)
    IN  IF Len(word) = Len(line)
        THEN << line >>
        ELSE << word >> \o re_split(lstrip(Drop(line, Len(word)), Whitespace))

DigitVal(c) ==
    CASE c = "0" -> 0 [] c = "1" -> 1 [] c = "2" -> 2 [] c = "3" -> 3
      [] c = "4" -> 4 [] c = "5" -> 5 [] c = "6" -> 6 [] c = "7" -> 7
      [] c = "8" -> 8 [] c = "9" -> 9

IsDigits(s) == s # "" /\ \A i \in 1..Len(s) : Ch(s, i) \in Digits

RECURSIVE StrToNat(_)
StrToNat(s) ==
    IF s = "" THEN 0
    ELSE 10 * StrToNat(SubSeq(s, 1, Len(s) - 1)) + DigitVal(Ch(s, Len(s)))

\* int(s) of a word (no whitespace inside): an optional sign and digits;
\* anything else raises ValueError.
int_ok(s) ==
    IF s # "" /\ Ch(s, 1) \in {"+", "-"} THEN IsDigits(Drop(s, 1)) ELSE IsDigits(s)

int(s) ==
    IF Ch(s, 1) = "-" THEN 0 - StrToNat(Drop(s, 1))
    ELSE IF Ch(s, 1) = "+" THEN StrToNat(Drop(s, 1))
    ELSE StrToNat(s)

DigitStr(n) == Ch("0123456789", n + 1)

RECURSIVE NatToStr(_)
NatToStr(n) == IF n < 10 THEN DigitStr(n) ELSE NatToStr(n \div 10) \o DigitStr(n % 10)

\* a %02d / %04d field of strftime
RECURSIVE ZeroPad(_, _)
ZeroPad(s, width) == IF Len(s) >= width THEN s ELSE ZeroPad("0" \o s, width)

-----------------------------------------------------------------------------
(* The time module, as far as the parser uses it.                          *)

UpperCase == "ABCDEFGHIJKLMNOPQRSTUVWXYZ"
LowerCase == "abcdefghijklmnopqrstuvwxyz"

\* str.lower(), as _strptime applies it to the %b field
RECURSIVE lower(_)
lower(s) ==
    IF s = "" THEN ""
    ELSE LET c == Ch(s, 1)
             hits == {i \in 1..26 : Ch(UpperCase, i) = c}
         IN  (IF hits = {} THEN c ELSE Ch(LowerCase, CHOOSE i \in hits : TRUE))
             \o lower(Drop(s, 1))

\* locale month abbreviations (C locale), lower-cased as _strptime keeps them
MonthAbbr == << "jan", "feb", "mar", "apr", "may", "jun",
                "jul", "aug", "sep", "oct", "nov", "dec" >>

\* day abbreviations of %a, indexed by tm_wday + 1 (Monday is 0)
DayAbbr == << "Mon", "Tue", "Wed", "Thu", "Fri", "Sat", "Sun" >>

IsLeap(y) == (y % 4 = 0 /\ y % 100 # 0) \/ y % 400 = 0

DaysInMonth(y, m) ==
    IF m = 2 THEN (IF IsLeap(y) THEN 29 ELSE 28)
    ELSE IF m \in {4, 6, 9, 11} THEN 30 ELSE 31

\* datetime.date(y, m, d) accepts the date (MINYEAR is 1)
date_ok(y, m, d) ==
    /\ y \in 1..9999
    /\ m \in 1..12
    /\ d \in 1..DaysInMonth(y, m)

\* datetime.date(y, m, d).weekday(): Monday is 0
weekday(y, m, d) ==
    LET t == << 0, 3, 2, 5, 0, 3, 5, 1, 4, 6, 2, 4 >>
        yy == IF m < 3 THEN y - 1 ELSE y
        sunday0 == (yy + yy \div 4 - yy \div 100 + yy \div 400 + t[m] + d) % 7
    IN  (sunday0 + 6) % 7

\* What a numeric directive of _strptime matches between two separators:
\* one or two digits with a value in lo..hi (%d, %m, %H, %M), as in
\* 3[0-1]|[1-2]\d|0[1-9]|[1-9] for %d.
field_ok(s, lo, hi) ==
    /\ IsDigits(s)
    /\ Len(s) \in 1..2
    /\ StrToNat(s) \in lo..hi

\* %Y: \d\d\d\d
year_ok(s) == IsDigits(s) /\ Len(s) = 4

\* %b: a month abbreviation, whatever the case
month_ok(s) == \E i \in 1..12 : MonthAbbr[i] = lower(s)

month_of(s) == CHOOSE i \in 1..12 : MonthAbbr[i] = lower(s)

NoTime == [ok |-> FALSE]

MakeTime(y, m, d, H, M) ==
    IF date_ok(y, m, d)
    THEN [ok |-> TRUE, year |-> y, mon |-> m, mday |-> d, hour |-> H,
          min |-> M, wday |-> weekday(y, m, d)]
    ELSE NoTime

\* "%H:%M" of a word
clock_ok(hm) ==
    LET p == split(hm, ":")
    IN  Len(p) = 2 /\ field_ok(p[1], 0, 23) /\ field_ok(p[2], 0, 59)

\* time.strptime(date + " " + hm, "%d-%b-%Y %H:%M") for words date and hm:
\* a struct_time, or NoTime where strptime raises ValueError.
strptime_dbY(date, hm) ==
    LET p == split(date, "-")
        q == split(hm, ":")
    IN  IF /\ Len(p) = 3
           /\ field_ok(p[1], 1, 31)
           /\ month_ok(p[2])
           /\ year_ok(p[3])
           /\ clock_ok(hm)
        THEN MakeTime(StrToNat(p[3]), month_of(p[2]), StrToNat(p[1]),
                      StrToNat(q[1]), StrToNat(q[2]))
        ELSE NoTime

\* time.strptime(mmdd + "/" + yyyy + " " + hm, "%m/%d/%Y %H:%M")
strptime_mdY(mmddyyyy, hm) ==
    LET p == split(mmddyyyy, "/")
        q == split(hm, ":")
    IN  IF /\ Len(p) = 3
           /\ field_ok(p[1], 1, 12)
           /\ field_ok(p[2], 1, 31)
           /\ year_ok(p[3])
           /\ clock_ok(hm)
        THEN MakeTime(StrToNat(p[3]), StrToNat(p[1]), StrToNat(p[2]),
                      StrToNat(q[1]), StrToNat(q[2]))
        ELSE NoTime

\* The year time.strftime formats for a struct_time of year y (gettmarg of
\* Python 2.7): years below 1900 are taken as two-digit years when
\* time.accept2dyear is set, and rejected otherwise; 0 stands for ValueError.
strftime_year(y, a2d) ==
    IF y >= 1900 THEN y
    ELSE IF ~a2d THEN 0
    ELSE IF y \in 69..99 THEN y + 1900
    ELSE IF y \in 0..68 THEN y + 2000
    ELSE 0

\* time.strftime("%Y-%m-%d %H:%M", tv); "" stands for ValueError
strftime_ts(tv, a2d) ==
    LET y == strftime_year(tv.year, a2d)
    IN  IF y = 0 THEN ""
        ELSE ZeroPad(NatToStr(y), 4) \o "-" \o ZeroPad(NatToStr(tv.mon), 2)
             \o "-" \o ZeroPad(NatToStr(tv.mday), 2) \o " "
             \o ZeroPad(NatToStr(tv.hour), 2) \o ":" \o ZeroPad(NatToStr(tv.min), 2)

\* time.strftime("%Y-%m-%d %H:%M (%a)", tv)
strftime_ts_a(tv, a2d) ==
    LET with_day(ts) ==
            IF ts = "" THEN "" ELSE ts \o " (" \o DayAbbr[tv.wday + 1] \o ")"
    IN  with_day(strftime_ts(tv, a2d))

\* time.strftime("%m", tv)
strftime_m(mon) == ZeroPad(NatToStr(mon), 2)

\* a > b for two strings of two digits, as Python compares strings
str_gt(a, b) ==
    \/ DigitVal(Ch(a, 1)) > DigitVal(Ch(b, 1))
    \/ Ch(a, 1) = Ch(b, 1) /\ DigitVal(Ch(a, 2)) > DigitVal(Ch(b, 2))

\* a conversion without the special case of the FlexLm "1-jan-0" date
convert_expiration_date_no_sentinel(exp_date, a2d) ==
    LET format(tv_exp) == IF tv_exp.ok THEN strftime_ts(tv_exp, a2d) ELSE ""
        return(ts_out) == IF ts_out # "" THEN ts_out ELSE "xxxx-xx-xx xx:xx"
    IN  return(format(strptime_dbY(exp_date, "23:59")))

\* convert_expiration_date(exp_date): format is the try block ("" where it
\* raises), return the except block and the return statement.
convert_expiration_date(exp_date, a2d) ==
    LET format(tv_exp) == IF tv_exp.ok THEN strftime_ts(tv_exp, a2d) ELSE ""
        return(ts_out) ==
            IF ts_out # "" THEN ts_out
            ELSE IF exp_date = "1-jan-0" \/ exp_date = "01-jan-0000"
                 THEN "9999-12-31 23:59"
                 ELSE "xxxx-xx-xx xx:xx"
    IN  return(format(strptime_dbY(exp_date, "23:59")))

\* adjust_year(tv_start, yyyy): the struct_time it returns, or NoTime where
\* it raises: yyyy is the string strftime("%Y") returned, so "yyyy -= 1"
\* raises TypeError whenever the branch is taken.
adjust_year(tv_start, clock) ==
    LET input_month == strftime_m(tv_start.mon)
        curr_month == strftime_m(clock.month)
    IN  IF str_gt(input_month, curr_month) THEN NoTime ELSE tv_start

\* flexlm_start_date_to_ts(mmdd, hhmm): adjust and format are the try block
\* (NoTime and "" where it raises), return the except block and the return
\* statement.
flexlm_start_date_to_ts(mmdd, hhmm, clock, a2d) ==
    LET yyyy == ZeroPad(NatToStr(clock.year), 4)
        adjust(tv_start) ==
            IF tv_start.ok THEN adjust_year(tv_start, clock) ELSE NoTime
        format(tv_adj) == IF tv_adj.ok THEN strftime_ts_a(tv_adj, a2d) ELSE ""
        return(ts_out) ==
            IF ts_out # "" THEN ts_out ELSE "xxxx-xx-xx xx:xx (BAD DATE)"
    IN  return(format(adjust(strptime_mdY(mmdd \o "/" \o yyyy, hhmm))))

-----------------------------------------------------------------------------
(* Inputs.                                                                 *)

SumA1 == "85527MAYA_F 1.000 5 1-jan-2015 adskflex"
SumA2 == "85527MAYA_F 1.000 3 1-oct-2007 othervend"
SumB == "85527MAYAF 1.000 5 1-jan-0 adskflex"
SumNeg == "85527MAYAF 1.000 -2 1-jan-0 adskflex"
SumBad == "85527MAYAF 1.000 x5 1-jan-0 adskflex"
SumStray == "stray text"

SummaryLines == {SumA1, SumA2, SumB, SumNeg, SumBad, SumStray, ""}

DetUsersA == "Users of 85527MAYA_F:  (Total of 5 licenses issued;  Total of 0 licenses in use)"
DetUsersB == "Users of 85527MAYAF:  (Total of 5 licenses issued;  Total of 1 license in use)"
DetVersion == "\"85527MAYAF\" v1.000, vendor: adskflex, expiry: 1-jan-0"
DetUse10 == "someguy ahost ahost (v1.000) (imdlic01/7111 7581), start Wed 9/12 9:08"
DetUse9 == "abaltazar minint-nljd3fo.mycompanyslongnam (v8.500) (imdlic01/7111 14022), start Thu 9/20 16:14"
DetOdd9 == "titanium titanium.mycompanyslongname.com (v8.500) (imdlic01/7111 7070), begin Thu 9/20 17:02"

DetailsLines == {DetUsersA, DetUsersB, DetVersion, DetUse10, DetUse9, DetOdd9, ""}

RawUsageInfo == "Feature usage info:"
RawHeader == "Feature   Version  #licenses  Expires  Vendor"
RawUnderline == "_______ _________ _________ __________ ______"
RawStatus == "License server status: 27000@imdlic01"
RawEntry == "  85527MAYAF 1.000 5 1-jan-0 adskflex\t"

\* lines of raw_text.split("\n")
RawLines == {RawUsageInfo, RawHeader, RawUnderline, RawStatus, RawEntry}

\* the text made of the lines of `lines`, a newline between two lines
RECURSIVE text_of(_)
text_of(lines) ==
    IF Len(lines) = 1 THEN lines[1]
    ELSE lines[1] \o "\n" \o text_of(Tail(lines))

\* a full report: details, summary, and the start of a repeated report
TextFull ==
    text_of(<< RawStatus, "", RawUsageInfo, DetUsersB, DetVersion, DetUse10, "",
               RawHeader, RawUnderline, SumB, SumA1, RawStatus, RawUsageInfo >>)

\* a summary with a total count that is no integer
TextBadCount ==
    text_of(<< RawUsageInfo, RawHeader, RawUnderline, SumA1, SumBad, SumB >>)

\* details of a feature the summary does not list
TextMissingKey ==
    text_of(<< RawUsageInfo, DetUsersB, DetVersion, RawHeader, RawUnderline, SumA1 >>)

\* a summary with one feature listed twice, nothing in use
TextSummaryOnly ==
    text_of(<< RawUsageInfo, RawHeader, RawUnderline, SumA1, SumA2 >>)

\* no "Feature usage info:" line
TextNoMarker == text_of(<< RawStatus, RawHeader, RawUnderline, SumA1 >>)

\* a summary whose lines end in "\r\n"
TextCRLF ==
    text_of(<< RawUsageInfo \o "\r", RawHeader \o "\r", RawUnderline \o "\r",
               SumA1 \o "\r" >>)

\* what pipe.read() can return
RawTexts ==
    {TextFull, TextBadCount, TextMissingKey, TextSummaryOnly, TextNoMarker,
     TextCRLF, ""}

\* what pipe.close() returns for a command that failed (None if it succeeded)
FailStatus == {256, 32512}

\* expiration dates handed to convert_expiration_date
ExpDates ==
    {"1-oct-2007", "01-Oct-2007", "1-jan-2015", "29-feb-2008", "31-dec-9999",
     "1-jan-1900", "31-dec-1899", "1-oct-0069", "1-oct-0007",
     "1-jan-0", "01-jan-0000", "1-jan-0000", "29-feb-2007", "31-apr-2015",
     "32-jan-2015", "1-okt-2007", "1-jan-15", "1-jan-20150", "not-a-date",
     "permanent", ""}

\* start dates and times handed to flexlm_start_date_to_ts
StartDates == {"9/12", "09/20", "12/31", "1/5", "2/29", "11/2", "13/1", "9-12"}

StartTimes == {"9:08", "17:02", "0:00", "24:00"}

\* readings of the local clock for the date functions: every month of a
\* common year and of a leap year
DateClocks == {[year |-> y, month |-> m] : y \in {2026, 2028}, m \in 1..12}

\* readings of the local clock: a January and a November
Clocks == {[year |-> 2026, month |-> 1], [year |-> 2026, month |-> 11]}

\* the line made of the words of `words`, one blank between two words
RECURSIVE join(_)
join(words) ==
    IF Len(words) = 1 THEN words[1]
    ELSE words[1] \o " " \o join(Tail(words))

\* `line` without its i-th word (counted from 1)
without_word(line, i) ==
    LET words == re_split(line)
    IN  join(SubSeq(words, 1, i - 1) \o SubSeq(words, i + 1, Len(words)))

\* the 10-word usage lines of the input, and each without its repeated host
UsageLines10 ==
    {l \in DetailsLines : Len(re_split(l)) = 10 /\ re_split(l)[7] = "start"}

\* raw_text.split("\n") of the input texts, computed once
LinesTable == [text \in RawTexts |-> split(text, "\n")]

TextLines == UNION {{LinesTable[t][i] : i \in 1..Len(LinesTable[t])} : t \in RawTexts}

KnownLines ==
    SummaryLines \cup DetailsLines \cup {without_word(l, 3) : l \in UsageLines10}
        \cup {strip(l, {" ", "\t"}) : l \in RawLines \cup TextLines}

\* re.split(r'\s+', line) of the input lines, computed once
WordsTable == [line \in KnownLines |-> re_split(line)]

-----------------------------------------------------------------------------
(* ParseFlexlm._preprocess                                                 *)

\* words[0:n] of a Python list
slice_to(words, n) == SubSeq(words, 1, IF Len(words) < n THEN Len(words) ELSE n)

\* "Feature Version #licenses Expires Vendor".split()
HeaderWords == << "Feature", "Version", "#licenses", "Expires", "Vendor" >>

\* "_______ _________ _________ __________ ______".split()
UnderlineWords == << "_______", "_________", "_________", "__________", "______" >>

\* "License server status:".split()
StatusWords == << "License", "server", "status:" >>

\* line.strip(' \t') of the input lines, computed once
TrimTable == [raw \in RawLines \cup TextLines |-> strip(raw, {" ", "\t"})]

\* line = line.strip(' \t')
trimmed_of(raw) ==
    IF raw \in DOMAIN TrimTable THEN TrimTable[raw] ELSE strip(raw, {" ", "\t"})

\* words = re.split(r'\s+', line)
words_of(line) ==
    IF line \in DOMAIN WordsTable THEN WordsTable[line] ELSE re_split(line)

\* a pass in state init that keeps the lines it does not recognise
init_line_retains(st, line) ==
    IF line = "Feature usage info:"
    THEN [st EXCEPT !.current_state = "feature_usage_info"]
    ELSE [st EXCEPT !.details_lines = Append(@, line)]

\* current_state == "init"
init_line(st, line) ==
    IF line = "Feature usage info:"
    THEN [st EXCEPT !.current_state = "feature_usage_info"]
    ELSE st

\* a pass in state feature_usage_info that takes the column header for the
\* whole heading of the summary
usage_info_line_skips_underline(st, line, words) ==
    IF words = HeaderWords
    THEN [st EXCEPT !.current_state = "feature_summary_info"]
    ELSE [st EXCEPT !.details_lines = Append(@, line)]

\* current_state == "feature_usage_info"
usage_info_line(st, line, words) ==
    IF words = HeaderWords
    THEN [st EXCEPT !.current_state = "feature_summary_header"]
    ELSE [st EXCEPT !.details_lines = Append(@, line)]

\* a pass in state feature_summary_header that keeps the underline
summary_header_line_keeps_underline(st, line, words) ==
    IF words = UnderlineWords
    THEN [st EXCEPT !.current_state = "feature_summary_info",
                    !.summary_lines = Append(@, line)]
    ELSE st

\* current_state == "feature_summary_header"
summary_header_line(st, line, words) ==
    IF words = UnderlineWords
    THEN [st EXCEPT !.current_state = "feature_summary_info"]
    ELSE st

\* a pass in state feature_summary_info that does not leave the loop
summary_info_line_no_break(st, line, words) ==
    IF slice_to(words, 3) = StatusWords
    THEN st
    ELSE [st EXCEPT !.summary_lines = Append(@, line)]

\* current_state == "feature_summary_info"; stop is set by "break"
summary_info_line(st, line, words) ==
    IF slice_to(words, 3) = StatusWords
    THEN [st EXCEPT !.stop = TRUE]
    ELSE [st EXCEPT !.summary_lines = Append(@, line)]

\* One pass of the loop of _preprocess over the line `raw` of
\* raw_text.split("\n"): the locals it leaves.
preprocess_line(st, raw) ==
    LET dispatch(line, words) ==
            IF st.current_state = "init" THEN init_line(st, line)
            ELSE IF st.current_state = "feature_usage_info"
            THEN usage_info_line(st, line, words)
            ELSE IF st.current_state = "feature_summary_header"
            THEN summary_header_line(st, line, words)
            ELSE IF st.current_state = "feature_summary_info"
            THEN summary_info_line(st, line, words)
            ELSE st
        split_words(line) == dispatch(line, words_of(line))
    IN  split_words(trimmed_of(raw))

\* the loop of _preprocess over the lines `lines`, left at "break"
RECURSIVE preprocess_loop(_, _)
preprocess_loop(st, lines) ==
    IF lines = << >> \/ st.stop THEN st
    ELSE preprocess_loop(preprocess_line(st, Head(lines)), Tail(lines))

\* _preprocess(raw_text)
preprocess(text) ==
    preprocess_loop([current_state |-> "init", summary_lines |-> << >>,
                     details_lines |-> << >>, stop |-> FALSE],
                    IF text \in DOMAIN LinesTable THEN LinesTable[text]
                    ELSE split(text, "\n"))

-----------------------------------------------------------------------------
(* ParseFlexlm._process_summary                                            *)

EmptyMap == [k \in {} |-> k]

\* d[key] = value of a Python dict
Put(d, key, value) == [k \in DOMAIN d \cup {key} |-> IF k = key THEN value ELSE d[k]]

\* dict(feature=..., version=..., ntotal=..., expires=..., vendor=..., nused=0, usage=[])
new_record(feature_name, version, ntotal, expires, vendor) ==
    [feature |-> feature_name, version |-> version, ntotal |-> ntotal,
     expires |-> expires, vendor |-> vendor, nused |-> 0, usage |-> << >>]

\* a merge that leaves the total of the record as it is
merge_record_keeps_total(rec, feature_name, version, ntotal, expires, vendor) ==
    rec

\* a merge that also takes the later line's expiration and vendor
merge_record_last_wins(rec, feature_name, version, ntotal, expires, vendor) ==
    [rec EXCEPT !.ntotal = @ + ntotal, !.expires = expires, !.vendor = vendor]

\* self.lminfo[feature_uniq]['ntotal'] += ntotal
merge_record(rec, feature_name, version, ntotal, expires, vendor) ==
    [rec EXCEPT !.ntotal = @ + ntotal]

\* a total count that is no integer, taken as 0
bad_count_zeroed(lm, words, a2d) ==
    [lminfo |-> Put(lm, words[1] \o "_" \o words[2],
                    new_record(words[1], words[2], 0,
                               convert_expiration_date(words[4], a2d), words[5])),
     exc |-> "none"]

\* ntotal = int(words[2]) of a word that is no integer: ValueError
bad_count(lm, words, a2d) == [lminfo |-> lm, exc |-> "ValueError"]

\* One pass of the loop of _process_summary over `line`: the record map it
\* leaves and the exception it raises ("none" if none).
summary_line(lm, line, a2d) ==
    LET store(feature_name, version, ntotal, expires, vendor, feature_uniq) ==
            IF feature_uniq \in DOMAIN lm
            THEN [lminfo |-> Put(lm, feature_uniq,
                                 merge_record(lm[feature_uniq], feature_name,
                                              version, ntotal, expires, vendor)),
                  exc |-> "none"]
            ELSE [lminfo |-> Put(lm, feature_uniq,
                                 new_record(feature_name, version, ntotal,
                                            expires, vendor)),
                  exc |-> "none"]
        body(words) ==
            IF Len(words) # 5 THEN [lminfo |-> lm, exc |-> "none"]
            ELSE IF ~int_ok(words[3]) THEN bad_count(lm, words, a2d)
            ELSE store(words[1], words[2], int(words[3]),
                       convert_expiration_date(words[4], a2d), words[5],
                       words[1] \o "_" \o words[2])
    IN  body(words_of(line))

\* _process_summary(raw_sum) from record map lm
RECURSIVE process_summary(_, _, _)
process_summary(lm, raw_sum, a2d) ==
    IF raw_sum = << >> THEN [lminfo |-> lm, exc |-> "none"]
    ELSE LET rest(r) == IF r.exc # "none" THEN r
                        ELSE process_summary(r.lminfo, Tail(raw_sum), a2d)
         IN  rest(summary_line(lm, Head(raw_sum), a2d))

-----------------------------------------------------------------------------
(* ParseFlexlm._process_details                                            *)

\* "licenses?" at the head of s: what follows it, or << >> if it is not there
after_license(s) ==
    IF ~StartsWith(s, " license") THEN << >>
    ELSE LET r == Drop(s, Len(" license"))
         IN  << IF StartsWith(r, "s") THEN Drop(r, 1) ELSE r >>

\* re.match(fu_re, line): << group(1) >> on a match, << >> otherwise.
\* (\S+): must end the run of non-blanks after "Users of ", since \s+ follows.
\* Each step takes what is left of the line after the part matched so far.
fu_match(line) ==
    LET \* " in use\)" after "\d+ licenses?"
        in_use(run, r7) ==
            IF r7 = << >> \/ ~StartsWith(r7[1], " in use)") THEN << >>
            ELSE << SubSeq(run, 1, Len(run) - 1) >>
        \* "\d+ licenses?" of the licenses in use
        used(run, r6) ==
            IF Span(r6, Digits) = "" THEN << >>
            ELSE in_use(run, after_license(Drop(r6, SpanLen(r6, Digits))))
        \* " issued;  Total of " after "\d+ licenses?"
        issued(run, r5) ==
            IF r5 = << >> \/ ~StartsWith(r5[1], " issued;  Total of ") THEN << >>
            ELSE used(run, Drop(r5[1], Len(" issued;  Total of ")))
        \* "\d+ licenses?" of the licenses issued
        total(run, r4) ==
            IF Span(r4, Digits) = "" THEN << >>
            ELSE issued(run, after_license(Drop(r4, SpanLen(r4, Digits))))
        \* "\s+\(Total of " after the feature name
        blanks(run, r2, r3) ==
            IF r3 = r2 \/ ~StartsWith(r3, "(Total of ") THEN << >>
            ELSE total(run, Drop(r3, Len("(Total of ")))
        \* "(\S+):" the feature name and its colon
        name(r1, run) ==
            IF Len(run) < 2 \/ Ch(run, Len(run)) # ":" THEN << >>
            ELSE blanks(run, Drop(r1, Len(run)),
                        lstrip(Drop(r1, Len(run)), Whitespace))
        users(r1) == name(r1, SpanNot(r1, Whitespace))
    IN  IF ~StartsWith(line, "Users of ") THEN << >>
        ELSE users(Drop(line, Len("Users of ")))

MatchTable == [line \in KnownLines |-> fu_match(line)]

\* match = re.match(fu_re, line)
match_of(line) ==
    IF line \in DOMAIN MatchTable THEN MatchTable[line] ELSE fu_match(line)

\* a reading that takes any line of 9 or 10 words for a usage line
usage_words_any_keyword(words) ==
    IF Len(words) = 10
    THEN << [usage_ver |-> words[4], usage_pid |-> words[6],
             usage_date |-> words[9], usage_time |-> words[10]] >>
    ELSE IF Len(words) = 9
    THEN << [usage_ver |-> words[3], usage_pid |-> words[5],
             usage_date |-> words[8], usage_time |-> words[9]] >>
    ELSE << >>

\* a reading of the 10-word shape that forgets the shift
usage_words_unshifted(words) ==
    IF Len(words) \in {9, 10} /\ words[Len(words) - 3] = "start"
    THEN << [usage_ver |-> words[3], usage_pid |-> words[5],
             usage_date |-> words[8], usage_time |-> words[9]] >>
    ELSE << >>

\* The words of a usage line that carry its fields, << >> for a line that
\* is skipped: the 10-word shape repeats the host name at words[2].
usage_words(words) ==
    IF Len(words) = 10 /\ words[7] = "start"
    THEN << [usage_ver |-> words[4], usage_pid |-> words[6],
             usage_date |-> words[9], usage_time |-> words[10]] >>
    ELSE IF Len(words) = 9 /\ words[6] = "start"
    THEN << [usage_ver |-> words[3], usage_pid |-> words[5],
             usage_date |-> words[8], usage_time |-> words[9]] >>
    ELSE << >>

\* a usage entry that keeps the full host name
usage_entry_full_host(words, w, lm_version, clock, a2d) ==
    [userid |-> words[1],
     host |-> words[2],
     pid |-> rstrip(w.usage_pid, {")", ","}),
     start |-> flexlm_start_date_to_ts(w.usage_date, w.usage_time, clock, a2d),
     sw_version |-> lstrip(strip(w.usage_ver, {"(", ")"}), {"v"}),
     lm_version |-> lm_version]

\* The usage entry of a recognised usage line
usage_entry(words, w, lm_version, clock, a2d) ==
    [userid |-> words[1],
     host |-> split(words[2], ".")[1],
     pid |-> rstrip(w.usage_pid, {")", ","}),
     start |-> flexlm_start_date_to_ts(w.usage_date, w.usage_time, clock, a2d),
     sw_version |-> lstrip(strip(w.usage_ver, {"(", ")"}), {"v"}),
     lm_version |-> lm_version]

\* an entry put at the head of the usage list
add_usage_at_head(rec, entry) ==
    [rec EXCEPT !.usage = << entry >> \o @, !.nused = @ + 1]

\* an append that forgets the used-license count
add_usage_uncounted(rec, entry) ==
    [rec EXCEPT !.usage = Append(@, entry)]

\* ...['usage'].append(usage_entry); ...['nused'] += 1
add_usage(rec, entry) ==
    [rec EXCEPT !.usage = Append(@, entry), !.nused = @ + 1]

\* a pass that drops a usage line met before any version sub-header
details_line_drops_unkeyed(st, line, clock, a2d) ==
    LET raise(e) == [st EXCEPT !.exc = e]
        \* a version sub-header
        sub_header(version) ==
            IF st.current_feature = << >> THEN raise("UnboundLocalError")
            ELSE LET uniq == st.current_feature[1] \o "_" \o version
                 IN  IF uniq \notin DOMAIN st.lminfo THEN raise("KeyError")
                     ELSE [st EXCEPT !.current_version = << version >>,
                                     !.current_feature_uniq = << uniq >>]
        \* a line of 9 or 10 words
        usage(words, w) ==
            IF w = << >> THEN st
            ELSE IF st.current_version = << >> THEN st
            ELSE LET uniq == st.current_feature_uniq[1]
                 IN  [st EXCEPT !.lminfo =
                          Put(@, uniq,
                              add_usage(st.lminfo[uniq],
                                        usage_entry(words, w[1],
                                                    st.current_version[1],
                                                    clock, a2d)))]
        body(words, match) ==
            IF match # << >>
            THEN [st EXCEPT !.current_feature = match]
            ELSE IF Len(words) = 6 /\ words[3] = "vendor:"
            THEN sub_header(strip(words[2], {"v", ","}))
            ELSE IF Len(words) \in {9, 10}
            THEN usage(words, usage_words(words))
            ELSE st
    IN  body(words_of(line), match_of(line))

\* One pass of the loop of _process_details over `line`, from the locals and
\* record map of st: what it leaves, and the exception it raises. A local
\* is << >> while unbound and << value >> once assigned.
details_line(st, line, clock, a2d) ==
    LET raise(e) == [st EXCEPT !.exc = e]
        \* a version sub-header
        sub_header(version) ==
            IF st.current_feature = << >> THEN raise("UnboundLocalError")
            ELSE LET uniq == st.current_feature[1] \o "_" \o version
                 IN  IF uniq \notin DOMAIN st.lminfo THEN raise("KeyError")
                     ELSE [st EXCEPT !.current_version = << version >>,
                                     !.current_feature_uniq = << uniq >>]
        \* a line of 9 or 10 words
        usage(words, w) ==
            IF w = << >> THEN st
            ELSE IF st.current_version = << >> THEN raise("UnboundLocalError")
            ELSE LET uniq == st.current_feature_uniq[1]
                 IN  [st EXCEPT !.lminfo =
                          Put(@, uniq,
                              add_usage(st.lminfo[uniq],
                                        usage_entry(words, w[1],
                                                    st.current_version[1],
                                                    clock, a2d)))]
        body(words, match) ==
            IF match # << >>
            THEN [st EXCEPT !.current_feature = match]
            ELSE IF Len(words) = 6 /\ words[3] = "vendor:"
            THEN sub_header(strip(words[2], {"v", ","}))
            ELSE IF Len(words) \in {9, 10}
            THEN usage(words, usage_words(words))
            ELSE st
    IN  body(words_of(line), match_of(line))

\* the loop of _process_details over the lines `lines`
RECURSIVE details_loop(_, _, _, _)
details_loop(st, lines, clock, a2d) ==
    IF lines = << >> \/ st.exc # "none" THEN st
    ELSE details_loop(details_line(st, Head(lines), clock, a2d), Tail(lines),
                      clock, a2d)

\* _process_details(raw_det) from record map lm
process_details(lm, raw_det, clock, a2d) ==
    details_loop([lminfo |-> lm, current_feature |-> << >>,
                  current_version |-> << >>, current_feature_uniq |-> << >>,
                  exc |-> "none"],
                 raw_det, clock, a2d)

-----------------------------------------------------------------------------
(* Spec: _process_summary and then _process_details on a fresh parser, as  *)
(* get_license_info calls them, the lines of raw_sum and raw_det being     *)
(* chosen one at a time.                                                   *)

Fresh ==
    /\ lminfo = EmptyMap
    /\ error = FALSE
    /\ error_msg = ""
    /\ exc = "none"
    /\ result = << >>
    /\ raw_text = ""
    /\ current_state = "init"
    /\ summary_lines = << >>
    /\ details_lines = << >>
    /\ current_feature = << >>
    /\ current_version = << >>
    /\ current_feature_uniq = << >>
    /\ sum_seen = << >>
    /\ det_seen = << >>
    /\ seen = << >>
    /\ d_in = << >>
    /\ d_out = ""
    /\ calls = 0
    /\ acquired = << >>

Init ==
    /\ Fresh
    /\ pc = "summary"
    /\ now \in Clocks
    /\ accept2dyear = TRUE

\* one pass of "for line in raw_sum"
ProcessSummaryLine ==
    /\ pc = "summary"
    /\ Len(sum_seen) < MaxSum
    /\ \E line \in SummaryLines :
          LET leave(r) ==
                  /\ lminfo' = r.lminfo
                  /\ exc' = r.exc
                  /\ pc' = IF r.exc = "none" THEN "summary" ELSE "raised"
          IN  /\ leave(summary_line(lminfo, line, accept2dyear))
              /\ sum_seen' = Append(sum_seen, line)
    /\ UNCHANGED << error, error_msg, result, raw_text, current_state,
                    summary_lines, details_lines, current_feature,
                    current_version, current_feature_uniq, now, accept2dyear,
                    det_seen, seen, d_in, d_out, calls, acquired >>

\* raw_sum is exhausted: _process_summary returns, _process_details starts
EndSummary ==
    /\ pc = "summary"
    /\ pc' = "details"
    /\ UNCHANGED << lminfo, error, error_msg, exc, result, raw_text,
                    current_state, summary_lines, details_lines,
                    current_feature, current_version, current_feature_uniq,
                    now, accept2dyear, sum_seen, det_seen, seen, d_in, d_out,
                    calls, acquired >>

DetailsState ==
    [lminfo |-> lminfo, current_feature |-> current_feature,
     current_version |-> current_version,
     current_feature_uniq |-> current_feature_uniq, exc |-> "none"]

\* one pass of "for line in raw_det"
ProcessDetailsLine ==
    /\ pc = "details"
    /\ Len(det_seen) < MaxDet
    /\ \E line \in DetailsLines :
          LET leave(r) ==
                  /\ lminfo' = r.lminfo
                  /\ current_feature' = r.current_feature
                  /\ current_version' = r.current_version
                  /\ current_feature_uniq' = r.current_feature_uniq
                  /\ exc' = r.exc
                  /\ pc' = IF r.exc = "none" THEN "details" ELSE "raised"
          IN  /\ leave(details_line(DetailsState, line, now, accept2dyear))
              /\ det_seen' = Append(det_seen, line)
    /\ UNCHANGED << error, error_msg, result, raw_text, current_state,
                    summary_lines, details_lines, now, accept2dyear, sum_seen,
                    seen, d_in, d_out, calls, acquired >>

\* raw_det is exhausted: _process_details returns
EndDetails ==
    /\ pc = "details"
    /\ pc' = "done"
    /\ UNCHANGED << lminfo, error, error_msg, exc, result, raw_text,
                    current_state, summary_lines, details_lines,
                    current_feature, current_version, current_feature_uniq,
                    now, accept2dyear, sum_seen, det_seen, seen, d_in, d_out,
                    calls, acquired >>

Next ==
    \/ ProcessSummaryLine
    \/ EndSummary
    \/ ProcessDetailsLine
    \/ EndDetails

Spec == Init /\ [][Next]_vars

-----------------------------------------------------------------------------
(* CursorSpec: _process_details after _process_summary has read a summary  *)
(* that lists both features, the lines of raw_det being chosen one at a    *)
(* time.                                                                   *)

\* the summary _process_summary has read
CursorSummary == << SumA1, SumB >>

CursorInit ==
    /\ pc = "details"
    /\ lminfo = process_summary(EmptyMap, CursorSummary, TRUE).lminfo
    /\ sum_seen = CursorSummary
    /\ error = FALSE
    /\ error_msg = ""
    /\ exc = "none"
    /\ result = << >>
    /\ raw_text = ""
    /\ current_state = "init"
    /\ summary_lines = << >>
    /\ details_lines = << >>
    /\ current_feature = << >>
    /\ current_version = << >>
    /\ current_feature_uniq = << >>
    /\ det_seen = << >>
    /\ seen = << >>
    /\ d_in = << >>
    /\ d_out = ""
    /\ calls = 0
    /\ acquired = << >>
    /\ now \in Clocks
    /\ accept2dyear = TRUE

\* one pass of "for line in raw_det"
CursorLine ==
    /\ pc = "details"
    /\ Len(det_seen) < MaxCursor
    /\ \E line \in DetailsLines :
          LET leave(r) ==
                  /\ lminfo' = r.lminfo
                  /\ current_feature' = r.current_feature
                  /\ current_version' = r.current_version
                  /\ current_feature_uniq' = r.current_feature_uniq
                  /\ exc' = r.exc
                  /\ pc' = IF r.exc = "none" THEN "details" ELSE "raised"
          IN  /\ leave(details_line(DetailsState, line, now, accept2dyear))
              /\ det_seen' = Append(det_seen, line)
    /\ UNCHANGED << error, error_msg, result, raw_text, current_state,
                    summary_lines, details_lines, now, accept2dyear, sum_seen,
                    seen, d_in, d_out, calls, acquired >>

CursorNext ==
    \/ CursorLine
    \/ EndDetails

CursorSpec == CursorInit /\ [][CursorNext]_vars

-----------------------------------------------------------------------------
(* SplitSpec: _preprocess, the lines of raw_text.split("\n") being chosen  *)
(* one at a time as the loop reaches them.                                 *)

SplitInit ==
    /\ Fresh
    /\ pc = "preprocess"
    /\ now = [year |-> 2026, month |-> 11]
    /\ accept2dyear = TRUE

SplitState ==
    [current_state |-> current_state, summary_lines |-> summary_lines,
     details_lines |-> details_lines, stop |-> FALSE]

\* one pass of "for line in raw_text.split("\n")"
PreprocessLine ==
    /\ pc = "preprocess"
    /\ Len(seen) < MaxRaw
    /\ \E raw \in RawLines :
          LET leave(r) ==
                  /\ current_state' = r.current_state
                  /\ summary_lines' = r.summary_lines
                  /\ details_lines' = r.details_lines
                  /\ pc' = IF r.stop THEN "returned" ELSE "preprocess"
          IN  /\ leave(preprocess_line(SplitState, raw))
              /\ seen' = Append(seen, raw)
    /\ UNCHANGED << lminfo, error, error_msg, exc, result, raw_text,
                    current_feature, current_version, current_feature_uniq,
                    now, accept2dyear, sum_seen, det_seen, d_in, d_out, calls, acquired >>

\* the lines are exhausted: return (summary_lines, details_lines)
PreprocessReturn ==
    /\ pc = "preprocess"
    /\ seen # << >>
    /\ pc' = "returned"
    /\ UNCHANGED << lminfo, error, error_msg, exc, result, raw_text,
                    current_state, summary_lines, details_lines,
                    current_feature, current_version, current_feature_uniq,
                    now, accept2dyear, sum_seen, det_seen, seen, d_in, d_out,
                    calls, acquired >>

SplitNext ==
    \/ PreprocessLine
    \/ PreprocessReturn

SplitSpec == SplitInit /\ [][SplitNext]_vars

-----------------------------------------------------------------------------
(* DateSpec: one call of either date function, on inputs of ExpDates,      *)
(* StartDates and StartTimes under every clock of DateClocks.              *)

DateInit ==
    /\ Fresh
    /\ pc = "dates"
    /\ now \in DateClocks
    /\ accept2dyear \in BOOLEAN

ConvertExpirationDate ==
    /\ pc = "dates"
    /\ \E exp_date \in ExpDates :
          /\ d_in' = << "expiration", exp_date >>
          /\ d_out' = convert_expiration_date(exp_date, accept2dyear)
    /\ pc' = "called"
    /\ UNCHANGED << lminfo, error, error_msg, exc, result, raw_text,
                    current_state, summary_lines, details_lines,
                    current_feature, current_version, current_feature_uniq,
                    now, accept2dyear, sum_seen, det_seen, seen, calls, acquired >>

FlexlmStartDateToTs ==
    /\ pc = "dates"
    /\ \E mmdd \in StartDates, hhmm \in StartTimes :
          /\ d_in' = << "start", mmdd, hhmm >>
          /\ d_out' = flexlm_start_date_to_ts(mmdd, hhmm, now, accept2dyear)
    /\ pc' = "called"
    /\ UNCHANGED << lminfo, error, error_msg, exc, result, raw_text,
                    current_state, summary_lines, details_lines,
                    current_feature, current_version, current_feature_uniq,
                    now, accept2dyear, sum_seen, det_seen, seen, calls, acquired >>

DateNext ==
    \/ ConvertExpirationDate
    \/ FlexlmStartDateToTs

DateSpec == DateInit /\ [][DateNext]_vars

-----------------------------------------------------------------------------
(* ParseSpec: get_license_info, called up to MaxCalls times on one parser  *)
(* instance, one action per statement of its body.                         *)

ParseInit ==
    /\ Fresh
    /\ pc = "idle"
    /\ now = [year |-> 2026, month |-> 11]
    /\ accept2dyear = TRUE

\* raw_text = self._get_raw_license_text(licfile)
GetRawLicenseText ==
    /\ pc \in {"idle", "returned", "raised"}
    /\ calls < MaxCalls
    /\ calls' = calls + 1
    /\ exc' = "none"
    /\ result' = << >>
    /\ pc' = "call_preprocess"
    /\ \/ \E data \in RawTexts :
             /\ raw_text' = data
             /\ acquired' = Append(acquired, << "data", data >>)
             /\ UNCHANGED << error, error_msg >>
       \/ \E stat \in FailStatus :
             /\ error' = TRUE
             /\ error_msg' = stat
             /\ raw_text' = ""
             /\ acquired' = Append(acquired, << "stat", stat >>)
    /\ UNCHANGED << lminfo, current_state, summary_lines, details_lines,
                    current_feature, current_version, current_feature_uniq,
                    now, accept2dyear, sum_seen, det_seen, seen, d_in, d_out >>

\* (raw_sum, raw_det) = self._preprocess(raw_text)
Preprocess ==
    /\ pc = "call_preprocess"
    /\ LET leave(r) ==
               /\ current_state' = r.current_state
               /\ summary_lines' = r.summary_lines
               /\ details_lines' = r.details_lines
       IN  leave(preprocess(raw_text))
    /\ pc' = "call_summary"
    /\ UNCHANGED << lminfo, error, error_msg, exc, result, raw_text,
                    current_feature, current_version, current_feature_uniq,
                    now, accept2dyear, sum_seen, det_seen, seen, d_in, d_out,
                    calls, acquired >>

\* self._process_summary(raw_sum)
ProcessSummary ==
    /\ pc = "call_summary"
    /\ LET leave(r) ==
               /\ lminfo' = r.lminfo
               /\ exc' = r.exc
               /\ pc' = IF r.exc = "none" THEN "call_details" ELSE "raised"
       IN  leave(process_summary(lminfo, summary_lines, accept2dyear))
    /\ UNCHANGED << error, error_msg, result, raw_text, current_state,
                    summary_lines, details_lines, current_feature,
                    current_version, current_feature_uniq, now, accept2dyear,
                    sum_seen, det_seen, seen, d_in, d_out, calls, acquired >>

\* self._process_details(raw_det)
ProcessDetails ==
    /\ pc = "call_details"
    /\ LET leave(r) ==
               /\ lminfo' = r.lminfo
               /\ current_feature' = r.current_feature
               /\ current_version' = r.current_version
               /\ current_feature_uniq' = r.current_feature_uniq
               /\ exc' = r.exc
               /\ pc' = IF r.exc = "none" THEN "call_return" ELSE "raised"
       IN  leave(process_details(lminfo, details_lines, now, accept2dyear))
    /\ UNCHANGED << error, error_msg, result, raw_text, current_state,
                    summary_lines, details_lines, now, accept2dyear, sum_seen,
                    det_seen, seen, d_in, d_out, calls, acquired >>

\* return json.dumps(self.lminfo, indent=4): the record map, as serialised
ReturnJson ==
    /\ pc = "call_return"
    /\ result' = << lminfo >>
    /\ pc' = "returned"
    /\ UNCHANGED << lminfo, error, error_msg, exc, raw_text, current_state,
                    summary_lines, details_lines, current_feature,
                    current_version, current_feature_uniq, now, accept2dyear,
                    sum_seen, det_seen, seen, d_in, d_out, calls, acquired >>

ParseNext ==
    \/ GetRawLicenseText
    \/ Preprocess
    \/ ProcessSummary
    \/ ProcessDetails
    \/ ReturnJson

ParseSpec == ParseInit /\ [][ParseNext]_vars

-----------------------------------------------------------------------------
(* Claims.                                                                 *)

\* C1: every record of the record map has nused equal to the length of its
\* usage list, after every line _process_summary and _process_details
\* process, and so after a full parse.
C1_NusedIsUsageLength ==
    \A k \in DOMAIN lminfo : lminfo[k].nused = Len(lminfo[k].usage)

\* a full parse that left a record with a usage entry
C1_Witness ==
    /\ pc = "done"
    /\ \E k \in DOMAIN lminfo : lminfo[k].nused = 1 /\ Len(lminfo[k].usage) = 1

\* the input lines _process_summary takes (5 words, the third an integer)
\* with their key, their count and their expiration date as converted
ValidSummaryTable ==
    [line \in {l \in KnownLines : Len(re_split(l)) = 5 /\ int_ok(re_split(l)[3])} |->
        [key |-> re_split(line)[1] \o "_" \o re_split(line)[2],
         count |-> int(re_split(line)[3]),
         expires |-> [a2d \in BOOLEAN |->
                         convert_expiration_date(re_split(line)[4], a2d)]]]

ValidSummaryLine(line) == line \in DOMAIN ValidSummaryTable

KeyOf(line) == ValidSummaryTable[line].key

\* the lines of sum_seen with key k, in order
LinesWithKey(k) ==
    SelectSeq(sum_seen, LAMBDA l : ValidSummaryLine(l) /\ KeyOf(l) = k)

RECURSIVE SumOfCounts(_)
SumOfCounts(lines) ==
    IF lines = << >> THEN 0
    ELSE ValidSummaryTable[Head(lines)].count + SumOfCounts(Tail(lines))

VersionHeaderTable ==
    [line \in {l \in KnownLines : Len(re_split(l)) = 6 /\ re_split(l)[3] = "vendor:"} |->
        strip(re_split(line)[2], {"v", ","})]

IsVersionHeader(line) == line \in DOMAIN VersionHeaderTable

LastDetail == det_seen[Len(det_seen)]

\* C5 (as claimed): a version sub-header whose key current_feature + "_" +
\* version is not in the record map makes _process_details create an empty
\* usage list for that key, and the parse goes on.
C5_MissingKeyGetsEmptyUsage ==
    ( /\ det_seen # << >>
      /\ IsVersionHeader(LastDetail)
      /\ current_feature # << >>
      /\ \A i \in 1..Len(sum_seen) :
            ValidSummaryLine(sum_seen[i]) =>
                KeyOf(sum_seen[i]) #
                    current_feature[1] \o "_" \o VersionHeaderTable[LastDetail] )
    => LET key == current_feature[1] \o "_" \o VersionHeaderTable[LastDetail]
       IN  /\ exc = "none"
           /\ key \in DOMAIN lminfo
           /\ lminfo[key].usage = << >>

\* each 10-word usage line of the input without its repeated host name
WithoutHostTable == [line \in UsageLines10 |-> without_word(line, 3)]

\* C6: a recognised 10-word usage line leaves what the 9-word line without
\* its repeated host name (word 2) leaves from the same record map and
\* cursor: the same usage entry, appended to the same record.
C6_ShiftedLineParsesAlike ==
    [][ ( /\ pc = "details"
          /\ det_seen' # det_seen
          /\ det_seen'[Len(det_seen')] \in UsageLines10 )
        => LET line9 == WithoutHostTable[det_seen'[Len(det_seen')]]
               r == details_line(DetailsState, line9, now, accept2dyear)
           IN  /\ Len(words_of(line9)) = 9
               /\ lminfo' = r.lminfo
               /\ exc' = r.exc
               /\ current_feature_uniq' = r.current_feature_uniq ]_vars

\* a 10-word usage line has been appended to a record
C6_Witness ==
    /\ det_seen # << >>
    /\ LastDetail \in UsageLines10
    /\ exc = "none"
    /\ current_feature_uniq # << >>
    /\ lminfo[current_feature_uniq[1]].nused > 0

\* the prefix of s before its first "." (all of s if it has none)
FirstComponent(s) ==
    CHOOSE p \in {SubSeq(s, 1, n) : n \in 0..Len(s)} :
        /\ \A i \in 1..Len(p) : Ch(p, i) # "."
        /\ Len(p) = Len(s) \/ Ch(s, Len(p) + 1) = "."

\* s without the ")" and "," that end it
WithoutClosing(s) ==
    CHOOSE p \in {SubSeq(s, 1, n) : n \in 0..Len(s)} :
        /\ p = "" \/ Ch(p, Len(p)) \notin {")", ","}
        /\ \A i \in (Len(p) + 1)..Len(s) : Ch(s, i) \in {")", ","}

\* s without the parentheses around it and the "v" that leads it
BareVersion(s) ==
    LET inner == CHOOSE p \in {SubSeq(s, i, j) : i \in 1..(Len(s) + 1), j \in 0..Len(s)} :
                    \E i \in 1..(Len(s) + 1), j \in 0..Len(s) :
                       /\ p = SubSeq(s, i, j)
                       /\ j >= i - 1
                       /\ \A n \in (1..(i - 1)) \cup ((j + 1)..Len(s)) :
                             Ch(s, n) \in {"(", ")"}
                       /\ p = "" \/ (Ch(p, 1) \notin {"(", ")"}
                                     /\ Ch(p, Len(p)) \notin {"(", ")"})
    IN  CHOOSE q \in {SubSeq(inner, i, Len(inner)) : i \in 1..(Len(inner) + 1)} :
           /\ q = "" \/ Ch(q, 1) # "v"
           /\ \A n \in 1..(Len(inner) - Len(q)) : Ch(inner, n) = "v"

\* the usage lines of the input that _process_details recognises, with
\* the fields the claim names
UsageFieldsTable ==
    [line \in {l \in DetailsLines : usage_words(re_split(l)) # << >>} |->
        LET words == re_split(line)
            shift == IF Len(words) = 10 THEN 1 ELSE 0
        IN  [userid |-> words[1],
             host |-> FirstComponent(words[2]),
             pid |-> WithoutClosing(words[5 + shift]),
             sw_version |-> BareVersion(words[3 + shift])]]

\* the version sub-headers of det_seen, in order
VersionHeadersSeen == SelectSeq(det_seen, IsVersionHeader)

\* the usage lines of det_seen that _process_details recognises
UsageLinesSeen ==
    SelectSeq(det_seen, LAMBDA l : l \in DOMAIN UsageFieldsTable)

RECURSIVE TotalUsage(_)
TotalUsage(keys) ==
    IF keys = {} THEN 0
    ELSE LET k == CHOOSE x \in keys : TRUE
         IN  Len(lminfo[k].usage) + TotalUsage(keys \ {k})

\* C10: a recognised usage line under a feature usage header and a version
\* sub-header whose record exists appends exactly one usage entry: userid is
\* word 0, host the first dot-delimited component of word 1, pid the pid
\* word without its closing ")" and ",", sw_version the version word without
\* parentheses and leading "v", lm_version the sub-header's version.
C10_UsageEntryFields ==
    ( /\ det_seen # << >>
      /\ LastDetail \in DOMAIN UsageFieldsTable
      /\ exc = "none" )
    => LET expected == UsageFieldsTable[LastDetail]
           usage == lminfo[current_feature_uniq[1]].usage
           e == usage[Len(usage)]
       IN  /\ TotalUsage(DOMAIN lminfo) = Len(UsageLinesSeen)
           /\ e.userid = expected.userid
           /\ e.host = expected.host
           /\ e.pid = expected.pid
           /\ e.sw_version = expected.sw_version
           /\ e.lm_version =
                  VersionHeaderTable[VersionHeadersSeen[Len(VersionHeadersSeen)]]
           /\ LastDetail = DetUse10 =>
                 /\ e.userid = "someguy"
                 /\ e.host = "ahost"
                 /\ e.pid = "7581"
                 /\ e.sw_version = "1.000"
                 /\ e.lm_version = "1.000"
           /\ LastDetail = DetUse9 =>
                 /\ e.userid = "abaltazar"
                 /\ e.host = "minint-nljd3fo"
                 /\ e.pid = "14022"
                 /\ e.sw_version = "8.500"

\* the usage line of the end-to-end scenario, after its two headers
C10_Witness ==
    /\ det_seen = << DetUsersB, DetVersion, DetUse10 >>
    /\ exc = "none"
    /\ Len(lminfo["85527MAYAF_1.000"].usage) = 1

\* the line as _preprocess classifies and keeps it
Trimmed(raw) == trimmed_of(raw)

IsUsageInfoLine(raw) == Trimmed(raw) = "Feature usage info:"

IsHeaderLine(raw) == words_of(Trimmed(raw)) = HeaderWords

IsUnderlineLine(raw) == words_of(Trimmed(raw)) = UnderlineWords

IsStatusLine(raw) == slice_to(words_of(Trimmed(raw)), 3) = StatusWords

\* the least index of `hits`, and Len(seen) + 1 if there is none
FirstOf(hits) ==
    IF hits = {} THEN Len(seen) + 1
    ELSE CHOOSE i \in hits : \A j \in hits : i <= j

\* the first "Feature usage info:" line, the first header line after it,
\* the first underline after that, the first status line after that
AtUsageInfo == FirstOf({i \in 1..Len(seen) : IsUsageInfoLine(seen[i])})

AtHeader ==
    FirstOf({i \in (AtUsageInfo + 1)..Len(seen) : IsHeaderLine(seen[i])})

AtUnderline ==
    FirstOf({i \in (AtHeader + 1)..Len(seen) : IsUnderlineLine(seen[i])})

AtStatus ==
    FirstOf({i \in (AtUnderline + 1)..Len(seen) : IsStatusLine(seen[i])})

\* the lines of seen from index lo to index hi, trimmed
TrimmedRange(lo, hi) ==
    [i \in 1..(IF hi < lo THEN 0 ELSE hi - lo + 1) |-> Trimmed(seen[lo + i - 1])]

LastSeenBefore(i) == IF i > Len(seen) THEN Len(seen) ELSE i - 1

\* C3 (as claimed): once a "License server status:" line has been read, no
\* later line is added to the summary or to the details.
C3_NothingAddedAfterFirstStatusLine ==
    [][ (\E i \in 1..Len(seen) : IsStatusLine(seen[i]))
        => (summary_lines' = summary_lines /\ details_lines' = details_lines) ]_vars

\* C3 (amended): the summary holds the lines after the underline up to the
\* first "License server status:" line that follows the underline; when
\* that line is read the loop is left, and no later line is read.
C3_StopsAtFirstStatusLineOfSummary ==
    /\ summary_lines = TrimmedRange(AtUnderline + 1, LastSeenBefore(AtStatus))
    /\ AtStatus <= Len(seen) => (pc = "returned" /\ Len(seen) = AtStatus)

\* two status lines, the second one closing the summary
C3_Witness ==
    /\ seen = << RawStatus, RawUsageInfo, RawHeader, RawUnderline, RawEntry,
                 RawStatus >>
    /\ pc = "returned"
    /\ summary_lines = << "85527MAYAF 1.000 5 1-jan-0 adskflex" >>

\* the input lines that are "Feature usage info:" once all the whitespace
\* around them is removed
UsageInfoLines ==
    {raw \in RawLines : strip(raw, Whitespace) = "Feature usage info:"}

\* C7: if no line is "Feature usage info:" once trimmed, _preprocess stays
\* in state init and returns an empty summary and empty details, whatever
\* other marker lines it reads.
C7_NoUsageInfoNoOutput ==
    (\A i \in 1..Len(seen) : seen[i] \notin UsageInfoLines)
    => /\ current_state = "init"
       /\ summary_lines = << >>
       /\ details_lines = << >>

\* the other three markers and a line of text, and no "Feature usage info:"
C7_Witness ==
    /\ pc = "returned"
    /\ {seen[i] : i \in 1..Len(seen)} =
           {RawHeader, RawUnderline, RawStatus, RawEntry}
    /\ summary_lines = << >>
    /\ details_lines = << >>

\* a start date "M/D" and time "H:MM" that name a day and a minute of year y
StartParses(mmdd, hhmm, y) ==
    LET p == split(mmdd, "/")
    IN  /\ Len(p) = 2
        /\ field_ok(p[1], 1, 12)
        /\ field_ok(p[2], 1, 31)
        /\ StrToNat(p[2]) <= DaysInMonth(y, StrToNat(p[1]))
        /\ clock_ok(hhmm)

\* "YYYY-MM-DD HH:MM" of year y and the month, day and time of the input
StartText(mmdd, hhmm, y) ==
    LET p == split(mmdd, "/")
        q == split(hhmm, ":")
    IN  ZeroPad(NatToStr(y), 4) \o "-" \o ZeroPad(p[1], 2) \o "-"
        \o ZeroPad(p[2], 2) \o " " \o ZeroPad(q[1], 2) \o ":" \o ZeroPad(q[2], 2)

\* C4 (as claimed): when the month of the start date is greater than the
\* current month, flexlm_start_date_to_ts returns the canonical string of
\* the previous year, with the month, day, time and a weekday of the input.
C4_RolloverGivesPreviousYear ==
    ( /\ d_in # << >>
      /\ d_in[1] = "start"
      /\ StartParses(d_in[2], d_in[3], now.year)
      /\ StartParses(d_in[2], d_in[3], now.year - 1)
      /\ StrToNat(split(d_in[2], "/")[1]) > now.month )
    => \E i \in 1..7 :
          d_out = StartText(d_in[2], d_in[3], now.year - 1)
                  \o " (" \o DayAbbr[i] \o ")"

\* an expiration date "D-MMM-YYYY" that names a day of the calendar
ExpParses(s) ==
    LET p == split(s, "-")
    IN  /\ Len(p) = 3
        /\ field_ok(p[1], 1, 31)
        /\ month_ok(p[2])
        /\ year_ok(p[3])
        /\ StrToNat(p[3]) >= 1
        /\ StrToNat(p[1]) <= DaysInMonth(StrToNat(p[3]), month_of(p[2]))

\* "YYYY-MM-DD 23:59" of the year, month and day the input spells
ExpText(s) ==
    LET p == split(s, "-")
        mm == << "01", "02", "03", "04", "05", "06",
                 "07", "08", "09", "10", "11", "12" >>
    IN  p[3] \o "-" \o mm[month_of(p[2])] \o "-"
        \o (IF Len(p[1]) = 1 THEN "0" \o p[1] ELSE p[1]) \o " 23:59"

ExpYear(s) == StrToNat(split(s, "-")[3])

NeverExpires == {"1-jan-0", "01-jan-0000"}

IsBadCountLine(line) ==
    Len(words_of(line)) = 5 /\ ~int_ok(words_of(line)[3])

\* the index of the first such line of the summary this call split off
FirstBadCount ==
    CHOOSE i \in 1..Len(summary_lines) :
        /\ IsBadCountLine(summary_lines[i])
        /\ \A j \in 1..(i - 1) : ~IsBadCountLine(summary_lines[j])

\* C8: when a 5-word summary line has a total count that is no integer,
\* get_license_info ends with an error raised to its caller: it returns no
\* result, and the line's count is not taken as a number (the line adds no
\* record and adds nothing to a total).
C8_BadCountFailsTheParse ==
    ( /\ pc \in {"call_details", "call_return", "returned", "raised"}
      /\ \E i \in 1..Len(summary_lines) : IsBadCountLine(summary_lines[i]) )
    => /\ pc = "raised"
       /\ exc = "ValueError"
       /\ result = << >>
       /\ calls = 1 =>
             \A k \in DOMAIN lminfo :
                \E j \in 1..(FirstBadCount - 1) : KeyOf(summary_lines[j]) = k

\* the summary pass met the line with count "x5" and raised
C8_Witness ==
    /\ pc = "raised"
    /\ exc = "ValueError"
    /\ raw_text = TextBadCount
    /\ summary_lines = << SumA1, SumBad, SumB >>
    /\ result = << >>

\* what _get_raw_license_text did in the call under way: << "data", text >>
\* or << "stat", status >>
LastAcquired == acquired[Len(acquired)]

\* C11: when the status command fails, get_license_info does not parse: the
\* splitter and the two extractors are not run, and the caller gets no
\* parsed result.
C11_FailureSkipsTheParse ==
    (acquired # << >> /\ LastAcquired[1] = "stat")
    => /\ pc \notin {"call_summary", "call_details", "call_return", "returned"}
       /\ result = << >>

\* the feature usage headers of the input with the feature they name
HeaderFeatureTable ==
    [line \in {l \in DetailsLines : fu_match(l) # << >>} |-> fu_match(line)[1]]

\* the greatest index of a non-empty set of indices
LastOf(hits) == CHOOSE i \in hits : \A j \in hits : j <= i

HeadersBefore(i) == {j \in 1..(i - 1) : det_seen[j] \in DOMAIN HeaderFeatureTable}

SubHeadersBefore(i) == {j \in 1..(i - 1) : IsVersionHeader(det_seen[j])}

\* the key the claim gives the usage line det_seen[i]: the feature of the
\* last header before it, "_", the version of the last sub-header before it
ClaimedKey(i) ==
    HeaderFeatureTable[det_seen[LastOf(HeadersBefore(i))]] \o "_"
        \o VersionHeaderTable[det_seen[LastOf(SubHeadersBefore(i))]]

\* C12: every usage entry is appended to the record keyed by the feature of
\* the most recent feature usage header and the version of the most recent
\* version sub-header: each record holds as many entries as there were
\* usage lines under its key, also when a new header is not followed by a
\* sub-header.
C12_EntryGoesToMostRecentHeader ==
    exc = "none" =>
        \A k \in DOMAIN lminfo :
            Len(lminfo[k].usage) =
                Cardinality({i \in 1..Len(det_seen) :
                                /\ det_seen[i] \in DOMAIN UsageFieldsTable
                                /\ ClaimedKey(i) = k})

\* the marker the splitter waits for in state st
Expects(st, raw) ==
    \/ st = "init" /\ IsUsageInfoLine(raw)
    \/ st = "feature_usage_info" /\ IsHeaderLine(raw)
    \/ st = "feature_summary_header" /\ IsUnderlineLine(raw)
    \/ st = "feature_summary_info" /\ IsStatusLine(raw)

\* the state that follows st; from feature_summary_info the loop is left
StateAfter(st) ==
    CASE st = "init" -> "feature_usage_info"
      [] st = "feature_usage_info" -> "feature_summary_header"
      [] st = "feature_summary_header" -> "feature_summary_info"

C14_OutputIsOrderedPartition ==
    /\ details_lines = TrimmedRange(AtUsageInfo + 1, LastSeenBefore(AtHeader))
    /\ summary_lines = TrimmedRange(AtUnderline + 1, LastSeenBefore(AtStatus))
    /\ Len(details_lines) + Len(summary_lines) <= Len(seen)
    /\ (details_lines # << >> /\ summary_lines # << >>)
           => LastSeenBefore(AtHeader) < AtUnderline

\* a line of details and a line of summary, between their markers
C14_Witness ==
    /\ seen = << RawUsageInfo, RawEntry, RawHeader, RawUnderline, RawEntry,
                 RawStatus >>
    /\ pc = "returned"
    /\ details_lines = << "85527MAYAF 1.000 5 1-jan-0 adskflex" >>
    /\ summary_lines = << "85527MAYAF 1.000 5 1-jan-0 adskflex" >>

\* the summary lines of the input that do not split into 5 words
OddSummaryLines == {l \in SummaryLines : Len(re_split(l)) # 5}

\* the details lines of the input of no expected shape: no feature usage
\* header, no version sub-header, no line of 9 words with "start" the
\* sixth or of 10 words with "start" the seventh
OddDetailsLines ==
    {l \in DetailsLines :
        /\ l \notin DOMAIN HeaderFeatureTable
        /\ ~(Len(re_split(l)) = 6 /\ re_split(l)[3] = "vendor:")
        /\ ~(Len(re_split(l)) = 9 /\ re_split(l)[6] = "start")
        /\ ~(Len(re_split(l)) = 10 /\ re_split(l)[7] = "start")}

\* C15: a summary line that does not split into 5 words leaves the record
\* map as it is; a details line of no expected shape leaves the record map
\* and the feature and version cursor as they are; neither raises.
C15_OddLinesChangeNothing ==
    [][ /\ (sum_seen' # sum_seen /\ sum_seen'[Len(sum_seen')] \in OddSummaryLines)
            => (lminfo' = lminfo /\ exc' = "none" /\ pc' = pc)
        /\ (det_seen' # det_seen /\ det_seen'[Len(det_seen')] \in OddDetailsLines)
            => /\ lminfo' = lminfo
               /\ current_feature' = current_feature
               /\ current_version' = current_version
               /\ current_feature_uniq' = current_feature_uniq
               /\ exc' = "none"
               /\ pc' = pc ]_vars

\* a stray summary line, then a 9-word line without "start" under a header
\* and a sub-header whose record exists
C15_Witness ==
    /\ sum_seen = << SumB, SumStray >>
    /\ det_seen = << DetUsersB, DetVersion, DetOdd9 >>
    /\ DOMAIN lminfo = {"85527MAYAF_1.000"}
    /\ lminfo["85527MAYAF_1.000"].usage = << >>
    /\ current_feature_uniq = << "85527MAYAF_1.000" >>
    /\ exc = "none"

\* C16: a recognised usage line that _process_details reaches before any
\* version sub-header makes it raise: the parse ends at that line, and no
\* usage entry has been appended to any record.
C16_UsageBeforeSubHeaderRaises ==
    \A i \in 1..Len(det_seen) :
        (det_seen[i] \in DOMAIN UsageFieldsTable /\ SubHeadersBefore(i) = {})
        => /\ i = Len(det_seen)
           /\ pc = "raised"
           /\ exc = "UnboundLocalError"
           /\ \A k \in DOMAIN lminfo :
                 lminfo[k].usage = << >> /\ lminfo[k].nused = 0

\* a usage line right after a feature usage header, the record being there
C16_Witness ==
    /\ sum_seen = << SumB >>
    /\ det_seen = << DetUsersB, DetUse10 >>
    /\ pc = "raised"
    /\ exc = "UnboundLocalError"

\* C17: the ntotal of every record is a non-negative integer, whatever
\* summary lines _process_summary has taken without raising.
C17_TotalsAreNonNegative ==
    \A k \in DOMAIN lminfo : lminfo[k].ntotal \in Nat

\* each text of the input with all the whitespace around each of its lines
\* removed, and what _preprocess returns for it
SplitOfTrimmed ==
    [text \in RawTexts |->
        LET lines == split(text, "\n")
        IN  preprocess(text_of([i \in 1..Len(lines) |-> strip(lines[i], Whitespace)]))]

\* C18: the splitter removes all the whitespace around each line before it
\* classifies or keeps it: what it returns for a text is what it returns
\* for the text with every line trimmed, carriage returns of "\r\n" line
\* ends included, and no line it keeps starts or ends with whitespace.
C18_LinesAreTrimmedOfAllWhitespace ==
    ( /\ pc \in {"call_summary", "call_details", "call_return", "returned", "raised"}
      /\ LastAcquired = << "data", raw_text >> )
    => /\ summary_lines = SplitOfTrimmed[raw_text].summary_lines
       /\ details_lines = SplitOfTrimmed[raw_text].details_lines
       /\ \A i \in 1..Len(summary_lines) :
             strip(summary_lines[i], Whitespace) = summary_lines[i]
       /\ \A i \in 1..Len(details_lines) :
             strip(details_lines[i], Whitespace) = details_lines[i]

SingleParse(text) ==
    LET parts == preprocess(text)
        summary == process_summary(EmptyMap, parts.summary_lines, accept2dyear)
    IN  process_details(summary.lminfo, parts.details_lines, now,
                        accept2dyear).lminfo

\* the sequence s, n times over
RECURSIVE Repeat(_, _)
Repeat(s, n) == IF n = 0 THEN << >> ELSE s \o Repeat(s, n - 1)

\* C20: the record map is not reset between calls: when get_license_info
\* has parsed the same text in every call made on a parser, each record
\* holds the ntotal and nused of a single parse of that text once per call
\* (twice after two calls) and the usage entries of a single parse once per
\* call, in the order of the calls.
C20_RepeatedCallsAccumulate ==
    ( /\ pc = "returned"
      /\ \A i \in 1..Len(acquired) : acquired[i] = << "data", raw_text >> )
    => LET once == SingleParse(raw_text)
       IN  /\ DOMAIN lminfo = DOMAIN once
           /\ result = << lminfo >>
           /\ \A k \in DOMAIN lminfo :
                 /\ lminfo[k].ntotal = calls * once[k].ntotal
                 /\ lminfo[k].nused = calls * once[k].nused
                 /\ lminfo[k].usage = Repeat(once[k].usage, calls)
                 /\ calls = 2 =>
                       /\ lminfo[k].ntotal = 2 * once[k].ntotal
                       /\ lminfo[k].nused = 2 * once[k].nused
                       /\ lminfo[k].usage = once[k].usage \o once[k].usage

\* the full report parsed twice on one parser
C20_Witness ==
    /\ pc = "returned"
    /\ calls = 2
    /\ acquired = << << "data", TextFull >>, << "data", TextFull >> >>
    /\ lminfo["85527MAYAF_1.000"].ntotal = 10
    /\ lminfo["85527MAYAF_1.000"].nused = 2
    /\ Len(lminfo["85527MAYAF_1.000"].usage) = 2
    /\ lminfo["85527MAYA_F_1.000"].ntotal = 10

=============================================================================
